---- MODULE Spec2Model ----
(***************************************************************************)
(* The rules engine of game-def (src/game-def/src/lib.rs): ResourceMap,    *)
(* Card, Player, State and the single mutating entry point State::run.     *)
(*                                                                         *)
(* A State value is the record [decks, players, coins, wilds, turn]. Vec   *)
(* indices are 0-based in the source and sequences are 1-based here, so    *)
(* v[i] of the source is v[i + 1] below. Player::display_name is never     *)
(* read by the rules and is left out.                                      *)
(*                                                                         *)
(* State and Player have public fields and are built by deserialisation    *)
(* (ai_from_function), so an initial State is any value of the type; the   *)
(* initial states below are a few hand-built positions, some of them with  *)
(* wild coins already in the players' hands.                               *)
(***************************************************************************)
EXTENDS Integers, Sequences, FiniteSets, TLC

VARIABLES decks, players, coins, wilds, turn, pc, action, ok, before, start, steps,
          played, nobels, build, found, stdin, stdout, nread, held

vars == <<decks, players, coins, wilds, turn, pc, action, ok, before, start, steps,
          played, nobels, build, found, stdin, stdout, nread, held>>

(***************************************************************************)
(* Bounds of the model.                                                    *)
(***************************************************************************)
\* State::run calls that change the State, explored from an initial position
MaxSteps == 2
\* deck indices offered to Purchase / Reserve: 0 .. MaxDeckArg
MaxDeckArg == 2
\* slot indices offered to Purchase / Reserve: 0 .. MaxCardArg
MaxCardArg == 4
\* indices offered to PurchaseReserved: 0 .. MaxIndexArg
MaxIndexArg == 1

(***************************************************************************)
(* ResourceKind and ResourceMap                                            *)
(***************************************************************************)
\* enum ResourceKind, in declaration order (the order EnumMap iterates in)
KindOrder == <<"Red", "Blue", "Green", "White", "Black">>

ResourceKind == {KindOrder[i] : i \in 1..Len(KindOrder)}

ResourceMap_new == [r \in ResourceKind |-> 0]

\* forgets what self held
ResourceMap_add_replace(self, adds) == adds

ResourceMap_add(self, adds) == [r \in ResourceKind |-> self[r] + adds[r]]

RECURSIVE sum_from(_, _)
sum_from(f, i) ==
    IF i > Len(KindOrder) THEN 0 ELSE f[KindOrder[i]] + sum_from(f, i + 1)

ResourceMap_sum(self) == sum_from(self, 1)

\* usize::saturating_sub
saturating_sub(a, b) == IF a > b THEN a - b ELSE 0

(***************************************************************************)
(* Card and Player                                                         *)
(***************************************************************************)
Card_new(color, score, cost) ==
    [cost |-> cost, score |-> score,
     adds |-> [ResourceMap_new EXCEPT ![color] = 1]]

Player_new ==
    [mortal |-> ResourceMap_new, immortal |-> ResourceMap_new, score |-> 0,
     reserved |-> <<>>, wilds |-> 0]

\* compares each kind's shortfall with the wild coins on its own
can_purchase_each(self, cost) ==
    \A r \in ResourceKind :
        saturating_sub(cost[r], self.immortal[r] + self.mortal[r]) <= self.wilds

\* forgets the permanent holdings
can_purchase_coins_only(self, cost) ==
    ResourceMap_sum([r \in ResourceKind |->
        saturating_sub(cost[r], self.mortal[r])]) <= self.wilds

\* Player::can_purchase: the shortfalls of all kinds together against wilds
can_purchase(self, cost) ==
    ResourceMap_sum([r \in ResourceKind |->
        saturating_sub(cost[r], self.immortal[r] + self.mortal[r])]) <= self.wilds

\* Player::purchase, kind by kind in enum order; on "Not enough resources"
\* the changes already made for earlier kinds stay (the references are &mut)
RECURSIVE purchase_from(_, _, _, _, _)
purchase_from(self, cost, state_coins, state_wilds, i) ==
    IF i > Len(KindOrder)
    THEN [ok |-> TRUE, player |-> self, coins |-> state_coins, wilds |-> state_wilds]
    ELSE LET r == KindOrder[i]
             t == saturating_sub(cost[r], self.immortal[r])
         IN  IF self.mortal[r] < t
             THEN IF self.wilds < t - self.mortal[r]
                  THEN [ok |-> FALSE, player |-> self,
                        coins |-> state_coins, wilds |-> state_wilds]
                  ELSE purchase_from(
                         [self EXCEPT !.wilds = @ - (t - self.mortal[r]),
                                      !.mortal[r] = 0],
                         cost,
                         [state_coins EXCEPT ![r] = @ + self.mortal[r]],
                         state_wilds + (t - self.mortal[r]),
                         i + 1)
             ELSE purchase_from(
                    [self EXCEPT !.mortal[r] = @ - t],
                    cost,
                    [state_coins EXCEPT ![r] = @ + t],
                    state_wilds,
                    i + 1)

\* credits the bank with the whole need, also where wild coins paid for it
purchase_credit_need(self, cost, state_coins, state_wilds) ==
    [purchase_from(self, cost, state_coins, state_wilds, 1) EXCEPT
        !.coins = [r \in ResourceKind |->
                     state_coins[r] + saturating_sub(cost[r], self.immortal[r])]]

\* lets the player keep the wild coins the bank is credited with
purchase_wilds_kept(self, cost, state_coins, state_wilds) ==
    [purchase_from(self, cost, state_coins, state_wilds, 1) EXCEPT
        !.player.wilds = self.wilds]

purchase(self, cost, state_coins, state_wilds) ==
    purchase_from(self, cost, state_coins, state_wilds, 1)

(***************************************************************************)
(* State                                                                   *)
(***************************************************************************)
MAX_DECK_SHOW == 4

\* takes the index as 1-based
remove_one_based(v, i) == SubSeq(v, 1, i - 1) \o SubSeq(v, i + 1, Len(v))

\* Vec::remove(i), i 0-based and in range
remove(v, i) == SubSeq(v, 1, i) \o SubSeq(v, i + 2, Len(v))

\* ends the game as soon as a score passes the threshold
is_finished_at_once(s) ==
    \E i \in 1..Len(s.players) : s.players[i].score > 14

is_finished(s) ==
    s.turn = 0 /\ \E i \in 1..Len(s.players) : s.players[i].score > 14

\* Iterator::max_by_key over enumerate(): of several maximal elements the
\* last one is returned
winner(s) ==
    CHOOSE i \in 0..(Len(s.players) - 1) :
        /\ \A j \in 0..(Len(s.players) - 1) :
              s.players[j + 1].score <= s.players[i + 1].score
        /\ \A j \in (i + 1)..(Len(s.players) - 1) :
              s.players[j + 1].score < s.players[i + 1].score

\* resets one seat early
change_player_early(s) ==
    LET t == s.turn + 1
    IN  [s EXCEPT !.turn = IF t >= Len(s.players) - 1 THEN 0 ELSE t]

change_player(s) ==
    LET t == s.turn + 1
    IN  [s EXCEPT !.turn = IF t = Len(s.players) THEN 0 ELSE t]

\* the Action enum
Action_PickThree(one, two, three) ==
    [kind |-> "PickThree", one |-> one, two |-> two, three |-> three]
Action_PickTwo(color) == [kind |-> "PickTwo", color |-> color]
Action_Purchase(deck, card) == [kind |-> "Purchase", deck |-> deck, card |-> card]
Action_PurchaseReserved(index) == [kind |-> "PurchaseReserved", index |-> index]
Action_Reserve(deck, card) == [kind |-> "Reserve", deck |-> deck, card |-> card]
Action_Skip == [kind |-> "Skip"]

Err(s) == [ok |-> FALSE, state |-> s]
Ok(s) == [ok |-> TRUE, state |-> s]

\* the loop of the PickThree arm: check and move one coin per item, in order
RECURSIVE pick_three_from(_, _, _)
pick_three_from(s, items, i) ==
    IF i > Len(items)
    THEN Ok(change_player(s))
    ELSE LET item == items[i]
         IN  IF s.coins[item] = 0
             THEN Err(s)
             ELSE pick_three_from(
                    [s EXCEPT !.coins[item] = @ - 1,
                              !.players[s.turn + 1].mortal[item] = @ + 1],
                    items, i + 1)

\* compares only neighbouring arguments
run_PickThree_neighbours(s, one, two, three) ==
    IF one = two \/ two = three
    THEN [ok |-> FALSE, state |-> s]
    ELSE pick_three_from(s, <<one, two, three>>, 1)

run_PickThree(s, one, two, three) ==
    IF one = two \/ one = three \/ two = three
    THEN Err(s)
    ELSE pick_three_from(s, <<one, two, three>>, 1)

\* asks only for the two coins taken
run_PickTwo_two(s, color) ==
    IF s.coins[color] < 2
    THEN [ok |-> FALSE, state |-> s]
    ELSE [ok |-> TRUE,
          state |-> change_player(
            [s EXCEPT !.coins[color] = @ - 2,
                      !.players[s.turn + 1].mortal[color] = @ + 2])]

\* hands the player one coin of the two taken
run_PickTwo_one(s, color) ==
    IF s.coins[color] < 4
    THEN [ok |-> FALSE, state |-> s]
    ELSE [ok |-> TRUE,
          state |-> change_player(
            [s EXCEPT !.coins[color] = @ - 2,
                      !.players[s.turn + 1].mortal[color] = @ + 1])]

\* refuses only an empty pile
run_PickTwo_nonzero(s, color) ==
    IF s.coins[color] = 0
    THEN [ok |-> FALSE, state |-> s]
    ELSE [ok |-> TRUE,
          state |-> change_player(
            [s EXCEPT !.coins[color] = @ - 2,
                      !.players[s.turn + 1].mortal[color] = @ + 2])]

run_PickTwo(s, color) ==
    IF s.coins[color] < 4
    THEN Err(s)
    ELSE Ok(change_player(
            [s EXCEPT !.coins[color] = @ - 2,
                      !.players[s.turn + 1].mortal[color] = @ + 2]))

\* settlement and card transfer shared by the two purchase arms: s is the
\* State with the card c already taken or still in place, as the arm has it
settle(s, c) ==
    LET player == s.players[s.turn + 1]
        p == purchase(player, c.cost, s.coins, s.wilds)
        paid == [s EXCEPT !.players[s.turn + 1] = p.player,
                          !.coins = p.coins, !.wilds = p.wilds]
    IN  IF ~p.ok
        THEN Err(paid)
        ELSE Ok([paid EXCEPT
                   !.players[s.turn + 1].immortal = ResourceMap_add(@, c.adds),
                   !.players[s.turn + 1].score = @ + c.score])

run_Purchase(s, deck, card) ==
    IF deck >= Len(s.decks) THEN Err(s)
    ELSE IF card >= MAX_DECK_SHOW THEN Err(s)
    ELSE IF card >= Len(s.decks[deck + 1]) THEN Err(s)
    ELSE LET c == s.decks[deck + 1][card + 1]
         IN  IF ~can_purchase(s.players[s.turn + 1], c.cost)
             THEN Err(s)
             ELSE LET r == settle(s, c)
                  IN  IF ~r.ok
                      THEN r
                      ELSE Ok(change_player(
                              [r.state EXCEPT !.decks[deck + 1] = remove(@, card)]))

run_PurchaseReserved(s, index) ==
    LET player == s.players[s.turn + 1]
    IN  IF index >= Len(player.reserved) THEN Err(s)
        ELSE LET c == player.reserved[index + 1]
             IN  IF ~can_purchase(player, c.cost)
                 THEN Err(s)
                 ELSE LET taken == [s EXCEPT !.players[s.turn + 1].reserved =
                                                 remove(@, index)]
                          r == settle(taken, c)
                      IN  IF ~r.ok THEN r ELSE Ok(change_player(r.state))

\* scores the card on reserving it
run_Reserve_scores(s, deck, card) ==
    IF deck >= Len(s.decks) THEN [ok |-> FALSE, state |-> s]
    ELSE IF card >= MAX_DECK_SHOW THEN [ok |-> FALSE, state |-> s]
    ELSE IF card >= Len(s.decks[deck + 1]) THEN [ok |-> FALSE, state |-> s]
    ELSE LET c == s.decks[deck + 1][card + 1]
         IN  [ok |-> TRUE,
              state |-> change_player(
                [s EXCEPT !.decks[deck + 1] = remove(@, card),
                          !.players[s.turn + 1].reserved = Append(@, c),
                          !.players[s.turn + 1].score = @ + c.score])]

run_Reserve(s, deck, card) ==
    IF deck >= Len(s.decks) THEN Err(s)
    ELSE IF card >= MAX_DECK_SHOW THEN Err(s)
    ELSE IF card >= Len(s.decks[deck + 1]) THEN Err(s)
    ELSE LET c == s.decks[deck + 1][card + 1]
         IN  Ok(change_player(
                [s EXCEPT !.decks[deck + 1] = remove(@, card),
                          !.players[s.turn + 1].reserved = Append(@, c)]))

run_Skip(s) == Ok(change_player(s))

\* State::run
run(s, a) ==
    CASE a.kind = "PickThree" -> run_PickThree(s, a.one, a.two, a.three)
      [] a.kind = "PickTwo" -> run_PickTwo(s, a.color)
      [] a.kind = "Purchase" -> run_Purchase(s, a.deck, a.card)
      [] a.kind = "PurchaseReserved" -> run_PurchaseReserved(s, a.index)
      [] a.kind = "Reserve" -> run_Reserve(s, a.deck, a.card)
      [] a.kind = "Skip" -> run_Skip(s)

(***************************************************************************)
(* The enumeration helpers of State and the move generator of the          *)
(* alpha-beta agent (src/alpha-beta-agent/src/main.rs).                    *)
(***************************************************************************)
\* the (deck, slot) pairs of deck x and the decks after it, slots in the window
RECURSIVE card_iter_from(_, _, _)
card_iter_from(s, x, show) ==
    IF x >= Len(s.decks)
    THEN <<>>
    ELSE LET n == IF show < Len(s.decks[x + 1]) THEN show ELSE Len(s.decks[x + 1])
         IN  [y \in 1..n |-> <<x, y - 1>>] \o card_iter_from(s, x + 1, show)

\* stops one slot short of the window
card_iter_short(s) == card_iter_from(s, 0, MAX_DECK_SHOW - 1)

card_iter(s) == card_iter_from(s, 0, MAX_DECK_SHOW)

RECURSIVE pick_two_from(_, _)
pick_two_from(s, i) ==
    IF i > Len(KindOrder) THEN <<>>
    ELSE (IF s.coins[KindOrder[i]] >= 4 THEN <<KindOrder[i]>> ELSE <<>>)
         \o pick_two_from(s, i + 1)

pick_two_iter(s) == pick_two_from(s, 1)

CANDIDATES ==
    << <<"Red", "Green", "Blue">>,
       <<"Red", "Green", "White">>,
       <<"Red", "Green", "Black">>,
       <<"Red", "Blue", "White">>,
       <<"Red", "Blue", "Black">>,
       <<"Red", "White", "Black">>,
       <<"Green", "Blue", "White">>,
       <<"Green", "Blue", "Black">>,
       <<"Green", "White", "Black">>,
       <<"Blue", "Black", "White">> >>

pick_three_iter(s) == CANDIDATES

\* runs every candidate on the one State, without a clone
RECURSIVE attempts_shared(_, _)
attempts_shared(state, actions) ==
    IF actions = <<>> THEN <<>>
    ELSE LET r == run(state, Head(actions))
         IN  (IF r.ok THEN << <<r.state, Head(actions)>> >> ELSE <<>>)
             \o attempts_shared(r.state, Tail(actions))

\* one loop of moves: every candidate is run on a clone of state and the
\* pair (clone, action) is kept when the run is Ok
RECURSIVE attempts(_, _)
attempts(state, actions) ==
    IF actions = <<>> THEN <<>>
    ELSE LET r == run(state, Head(actions))
         IN  (IF r.ok THEN << <<r.state, Head(actions)>> >> ELSE <<>>)
             \o attempts(state, Tail(actions))

moves(state) ==
    LET cards == card_iter(state)
        reserved == state.players[state.turn + 1].reserved
        threes == pick_three_iter(state)
        twos == pick_two_iter(state)
    IN  attempts(state, [i \in 1..Len(cards) |->
                            Action_Purchase(cards[i][1], cards[i][2])])
        \o attempts(state, [i \in 1..Len(reserved) |-> Action_PurchaseReserved(i - 1)])
        \o attempts(state, [i \in 1..Len(threes) |->
                            Action_PickThree(threes[i][1], threes[i][2], threes[i][3])])
        \o attempts(state, [i \in 1..Len(twos) |-> Action_PickTwo(twos[i])])
        \o attempts(state, [i \in 1..Len(cards) |->
                            Action_Reserve(cards[i][1], cards[i][2])])


(***************************************************************************)
(* The heuristic and the search of the alpha-beta agent. heuristic reads   *)
(* state.nobels, a list of records with a cost per kind; the State of      *)
(* game-def has no such field, so the list is taken from the               *)
(* specification's data model (a State with or without Nobels) and is the  *)
(* field nobels of the State records the search is given. build is the     *)
(* profile the agent was compiled with: an integer overflow panics in a    *)
(* debug build and wraps (a shift count is masked) in a release build. A   *)
(* panic unwinds the whole search, so results carry a panicked flag.       *)
(***************************************************************************)
RECURSIVE Pow2(_)
Pow2(k) == IF k = 0 THEN 1 ELSE 2 * Pow2(k - 1)

Value(v) == [panicked |-> FALSE, value |-> v]

Panic == [panicked |-> TRUE, value |-> 0]

\* the closure chain of lines 59-60 for one nobel: the usize sum of
\* (holding - cost) over the kinds, then 1000 >> that sum
nobel_term(player, n) ==
    LET t == ResourceMap_sum([c \in ResourceKind |-> player.immortal[c] - n.cost[c]])
        underflow == \E c \in ResourceKind : player.immortal[c] < n.cost[c]
    IN  IF build = "debug"
        THEN IF underflow \/ t >= 32 THEN Panic ELSE Value(1000 \div Pow2(t))
        ELSE Value(1000 \div Pow2(t % 32))

RECURSIVE nobel_terms(_, _, _)
nobel_terms(state, player, i) ==
    IF i > Len(state.nobels)
    THEN Value(0)
    ELSE LET a == nobel_term(player, state.nobels[i])
             b == nobel_terms(state, player, i + 1)
         IN  IF a.panicked \/ b.panicked THEN Panic ELSE Value(a.value + b.value)

player_heuristic(state, player) ==
    LET n == nobel_terms(state, player, 1)
    IN  IF n.panicked
        THEN Panic
        ELSE Value(ResourceMap_sum(player.mortal) * 3
                   + player.wilds * 4
                   + ResourceMap_sum(player.immortal) * 100
                   + Pow2(player.score) * 10
                   + n.value)

heuristic(state) ==
    LET a == player_heuristic(state, state.players[1])
        b == player_heuristic(state, state.players[2])
    IN  IF a.panicked \/ b.panicked THEN Panic ELSE Value(a.value - b.value)

Scored(score, ac) == [score |-> score, action |-> ac, panicked |-> FALSE]

\* line 78: a move replaces the best one only with a strictly greater score
improves(best, score) == best < score

\* line 77: the window handed to the child, negated and swapped
child_window_unswapped(alpha, beta) == <<-alpha, -beta>>

child_window(alpha, beta) == <<-beta, -alpha>>

RECURSIVE max_score(_, _, _, _)
RECURSIVE max_score_loop(_, _, _, _, _, _)

\* the for loop of max_score from the i-th move on, r the best so far
max_score_loop(ms, i, r, depth, alpha, beta) ==
    IF i > Len(ms)
    THEN r
    ELSE LET w == child_window(alpha, beta)
             c == max_score(ms[i][1], depth - 1, w[1], w[2])
             score == -c.score
         IN  IF c.panicked
             THEN [r EXCEPT !.panicked = TRUE]
             ELSE IF improves(r.score, score)
                  THEN IF score >= beta
                       THEN Scored(score, ms[i][2])
                       ELSE max_score_loop(ms, i + 1, Scored(score, ms[i][2]), depth,
                                           IF alpha > score THEN alpha ELSE score, beta)
                  ELSE max_score_loop(ms, i + 1, r, depth, alpha, beta)

\* tests the horizon before the end of the game
max_score_horizon_first(state, depth, alpha, beta) ==
    IF state.turn = 0 /\ depth <= 0
    THEN LET h == heuristic(state)
         IN  [score |-> h.value, action |-> Action_Skip, panicked |-> h.panicked]
    ELSE IF is_finished(state)
    THEN IF winner(state) = 0
         THEN Scored(1000000000, Action_Skip)
         ELSE Scored(-1000000000, Action_Skip)
    ELSE max_score_loop(moves(state), 1, Scored(-1000000001, Action_Skip),
                        depth, alpha, beta)

max_score(state, depth, alpha, beta) ==
    IF is_finished(state)
    THEN IF winner(state) = 0
         THEN Scored(1000000000, Action_Skip)
         ELSE Scored(-1000000000, Action_Skip)
    ELSE IF state.turn = 0 /\ depth <= 0
    THEN LET h == heuristic(state)
         IN  [score |-> h.value, action |-> Action_Skip, panicked |-> h.panicked]
    ELSE max_score_loop(moves(state), 1, Scored(-1000000001, Action_Skip),
                        depth, alpha, beta)

(***************************************************************************)
(* The fixed-policy agent: the first action that runs Ok on a clone of the *)
(* state, tried in the order Purchase, PurchaseReserved, PickThree,        *)
(* PickTwo, Reserve, and Skip when none does.                              *)
(***************************************************************************)
\* answers the first candidate without running it
first_ok_unchecked(state, actions) ==
    IF actions = <<>> THEN <<>> ELSE <<Head(actions)>>

RECURSIVE first_ok(_, _)
first_ok(state, actions) ==
    IF actions = <<>> THEN <<>>
    ELSE IF run(state, Head(actions)).ok
         THEN <<Head(actions)>>
         ELSE first_ok(state, Tail(actions))

random_agent_logic(state) ==
    LET cards == card_iter(state)
        reserved == state.players[state.turn + 1].reserved
        threes == pick_three_iter(state)
        twos == pick_two_iter(state)
        a == first_ok(state, [i \in 1..Len(cards) |->
                                Action_Purchase(cards[i][1], cards[i][2])])
        b == first_ok(state, [i \in 1..Len(reserved) |-> Action_PurchaseReserved(i - 1)])
        c == first_ok(state, [i \in 1..Len(threes) |->
                                Action_PickThree(threes[i][1], threes[i][2], threes[i][3])])
        d == first_ok(state, [i \in 1..Len(twos) |-> Action_PickTwo(twos[i])])
        e == first_ok(state, [i \in 1..Len(cards) |->
                                Action_Reserve(cards[i][1], cards[i][2])])
    IN  IF a # <<>> THEN a[1]
        ELSE IF b # <<>> THEN b[1]
        ELSE IF c # <<>> THEN c[1]
        ELSE IF d # <<>> THEN d[1]
        ELSE IF e # <<>> THEN e[1]
        ELSE Action_Skip

(***************************************************************************)
(* Lines of JSON. A line is a JSON object (a set of members, name and      *)
(* value), a JSON string, text that is no JSON at all, or an item of       *)
(* stdin().lines() that is an I/O error.                                   *)
(***************************************************************************)
JsonObject(members) == [kind |-> "object", members |-> members, text |-> ""]

JsonString(text) == [kind |-> "string", members |-> {}, text |-> text]

StateFields == {"decks", "players", "coins", "wilds", "turn"}

\* serde_json::to_string of a State: one member per field
State_to_string(state) == JsonObject({<<k, state[k]>> : k \in StateFields})

\* serde_json::from_str::<State>: every field once, unknown members ignored
from_str(line) ==
    IF line.kind # "object"
    THEN [ok |-> FALSE, state |-> <<>>]
    ELSE IF \E k \in StateFields : Cardinality({m \in line.members : m[1] = k}) # 1
    THEN [ok |-> FALSE, state |-> <<>>]
    ELSE [ok |-> TRUE,
          state |-> [k \in StateFields |-> (CHOOSE m \in line.members : m[1] = k)[2]]]

\* serde_json::to_string of an Action: the variant name as a string when
\* it has no fields, else an object with the variant name as only member
Action_to_string(a) ==
    IF DOMAIN a = {"kind"}
    THEN JsonString(a.kind)
    ELSE JsonObject({<<a.kind, [f \in DOMAIN a \ {"kind"} |-> a[f]]>>})

(***************************************************************************)
(* Initial positions                                                       *)
(***************************************************************************)
Cost(red, blue, green) ==
    [ResourceMap_new EXCEPT !["Red"] = red, !["Blue"] = blue, !["Green"] = green]

CardA == Card_new("Red", 0, Cost(1, 0, 0))
CardB == Card_new("Blue", 15, Cost(1, 1, 0))
CardC == Card_new("Green", 1, Cost(2, 1, 0))
CardD == Card_new("Blue", 2, Cost(0, 2, 1))
CardE == Card_new("White", 3, Cost(3, 0, 0))

\* two seats holding wild coins, a deck longer than the visible window
Position1 ==
    [decks |-> << <<CardA, CardC, CardD, CardA, CardA>>, <<CardB, CardB>> >>,
     players |-> << [Player_new EXCEPT !.wilds = 2],
                    [Player_new EXCEPT !.wilds = 1, !.mortal["Blue"] = 1] >>,
     coins |-> [ResourceMap_new EXCEPT !["Red"] = 4, !["Blue"] = 1, !["Green"] = 1],
     wilds |-> 0,
     turn |-> 0]

\* three seats, fresh players, the last seat to move, exhausted kinds in the bank
Position2 ==
    [decks |-> << <<CardA, CardD>>, <<CardC>> >>,
     players |-> <<Player_new, Player_new, Player_new>>,
     coins |-> [ResourceMap_new EXCEPT !["Red"] = 5, !["Blue"] = 3, !["White"] = 1],
     wilds |-> 3,
     turn |-> 2]

\* a position late in a game: cards owned and reserved, scores near the end
Position3 ==
    [decks |-> << <<CardE, CardA, CardC>>, <<CardD>> >>,
     players |-> << [Player_new EXCEPT !.mortal["Red"] = 1, !.immortal["Red"] = 1,
                                       !.wilds = 1, !.score = 12,
                                       !.reserved = <<CardE, CardA>>],
                    [Player_new EXCEPT !.mortal["Blue"] = 1, !.mortal["Green"] = 1,
                                       !.immortal["Blue"] = 1, !.score = 14,
                                       !.reserved = <<CardD>>] >>,
     coins |-> [ResourceMap_new EXCEPT !["Red"] = 3, !["Blue"] = 2, !["Black"] = 2],
     wilds |-> 1,
     turn |-> 0]

Positions == {Position1, Position2, Position3}

(***************************************************************************)
(* The state machine: a caller holding one State calls run on it and gets  *)
(* the result back. before is the State at the entry of the call, action   *)
(* and ok are the call and whether it returned Ok; start is the initial    *)
(* position and played[i] the successful calls made with seat i - 1 to     *)
(* move.                                                                   *)
(***************************************************************************)
\* no agent process: nothing to read, nothing written
NoStreams == stdin = <<>> /\ stdout = <<>> /\ nread = 0 /\ held = <<>>

\* nothing searched yet
NotSearched == [depth |-> 0, score |-> 0, action |-> Action_Skip, panicked |-> FALSE]

Cur == [decks |-> decks, players |-> players, coins |-> coins,
        wilds |-> wilds, turn |-> turn]

Init ==
    /\ \E s \in Positions :
          /\ decks = s.decks
          /\ players = s.players
          /\ coins = s.coins
          /\ wilds = s.wilds
          /\ turn = s.turn
          /\ before = s
          /\ start = s
          /\ played = [i \in 1..Len(s.players) |-> 0]
    /\ pc = "idle"
    /\ action = Action_Skip
    /\ ok = TRUE
    /\ steps = 0
    /\ nobels = <<>>
    /\ build = "release"
    /\ found = NotSearched
    /\ NoStreams

\* the caller's State after a call of run and what the call returned
Returned(r, a) ==
    /\ decks' = r.state.decks
    /\ players' = r.state.players
    /\ coins' = r.state.coins
    /\ wilds' = r.state.wilds
    /\ turn' = r.state.turn
    /\ ok' = r.ok
    /\ steps' = IF r.state # Cur THEN steps + 1 ELSE steps
    /\ before' = Cur
    /\ action' = a
    /\ pc' = "returned"
    /\ played' = IF r.ok THEN [played EXCEPT ![turn + 1] = @ + 1] ELSE played
    /\ found' = NotSearched
    /\ UNCHANGED <<start, nobels, build, stdin, stdout, nread, held>>

Callable == pc = "idle" /\ steps < MaxSteps

\* one action per arm of State::run, called on the caller's State
PickThree(one, two, three) ==
    /\ Callable
    /\ Returned(run(Cur, Action_PickThree(one, two, three)),
                Action_PickThree(one, two, three))

PickTwo(color) ==
    /\ Callable
    /\ Returned(run(Cur, Action_PickTwo(color)), Action_PickTwo(color))

Purchase(deck, card) ==
    /\ Callable
    /\ Returned(run(Cur, Action_Purchase(deck, card)), Action_Purchase(deck, card))

PurchaseReserved(index) ==
    /\ Callable
    /\ Returned(run(Cur, Action_PurchaseReserved(index)),
                Action_PurchaseReserved(index))

Reserve(deck, card) ==
    /\ Callable
    /\ Returned(run(Cur, Action_Reserve(deck, card)), Action_Reserve(deck, card))

Skip ==
    /\ Callable
    /\ Returned(run(Cur, Action_Skip), Action_Skip)

\* the caller has looked at the result and is ready for the next call
Return ==
    /\ pc = "returned"
    /\ pc' = "idle"
    /\ before' = Cur
    /\ action' = Action_Skip
    /\ ok' = TRUE
    /\ UNCHANGED <<decks, players, coins, wilds, turn, start, steps, played,
                   nobels, build, found, stdin, stdout, nread, held>>

Next ==
    \/ \E one \in ResourceKind, two \in ResourceKind, three \in ResourceKind :
          PickThree(one, two, three)
    \/ \E color \in ResourceKind : PickTwo(color)
    \/ \E deck \in 0..MaxDeckArg, card \in 0..MaxCardArg : Purchase(deck, card)
    \/ \E index \in 0..MaxIndexArg : PurchaseReserved(index)
    \/ \E deck \in 0..MaxDeckArg, card \in 0..MaxCardArg : Reserve(deck, card)
    \/ Skip
    \/ Return

Spec == Init /\ [][Next]_vars

(***************************************************************************)
(* Affordability on its own: one card of any cost up to MaxCost per kind   *)
(* (over three of the kinds) in front of a player with any holdings up to  *)
(* MaxHold coins and cards and MaxWild wild coins, and the Purchase of it. *)
(***************************************************************************)
MaxCost == 3
MaxHold == 2
MaxWild == 2

Costs == {Cost(r, b, g) : r \in 0..MaxCost, b \in 0..MaxCost, g \in 0..MaxCost}

Holdings ==
    {[Player_new EXCEPT !.mortal = Cost(mr, mb, 0), !.immortal = Cost(ir, 0, 0),
                        !.wilds = w] :
        mr \in 0..MaxHold, mb \in 0..MaxHold, ir \in 0..MaxHold, w \in 0..MaxWild}

AffordPositions ==
    {[decks |-> << <<Card_new("Red", 1, cost)>> >>,
      players |-> <<p, Player_new>>,
      coins |-> ResourceMap_new,
      wilds |-> 0,
      turn |-> 0] : cost \in Costs, p \in Holdings}

InitAfford ==
    /\ \E s \in AffordPositions :
          /\ decks = s.decks
          /\ players = s.players
          /\ coins = s.coins
          /\ wilds = s.wilds
          /\ turn = s.turn
          /\ before = s
          /\ start = s
          /\ played = [i \in 1..Len(s.players) |-> 0]
    /\ pc = "idle"
    /\ action = Action_Skip
    /\ ok = TRUE
    /\ steps = 0
    /\ nobels = <<>>
    /\ build = "release"
    /\ found = NotSearched
    /\ NoStreams

NextAfford ==
    \/ Purchase(0, 0)
    \/ Return

SpecAfford == InitAfford /\ [][NextAfford]_vars

(***************************************************************************)
(* The alpha-beta agent at work: from a small two-player position it       *)
(* searches to a depth, and the host applies the action it answers.        *)
(***************************************************************************)
MaxDepth == 4

MaxBank == 1

\* a nobel asking for one permanent Red
NobelRed == [cost |-> [ResourceMap_new EXCEPT !["Red"] = 1], score |-> 3]

NobelLists == {<<>>, <<NobelRed>>}

SearchPositions ==
    {[decks |-> << <<CardA>>, <<>> >>,
      players |-> << [Player_new EXCEPT !.mortal = [ResourceMap_new EXCEPT !["Red"] = 1],
                                        !.immortal = [ResourceMap_new EXCEPT !["Red"] = 1],
                                        !.wilds = 1,
                                        !.score = 12,
                                        !.reserved = <<CardE>>],
                     [Player_new EXCEPT !.mortal = [ResourceMap_new EXCEPT !["Blue"] = 1,
                                                                           !["Green"] = 1],
                                        !.immortal = [ResourceMap_new EXCEPT !["Blue"] = 1],
                                        !.score = s1,
                                        !.reserved = <<CardD>>] >>,
      coins |-> [ResourceMap_new EXCEPT !["Red"] = r, !["Blue"] = b, !["Black"] = 1],
      wilds |-> 1,
      turn |-> t] : r \in 0..MaxBank, b \in 0..MaxBank, t \in 0..1, s1 \in {11, 14}}

\* the State the agent is handed: the position and its nobels
SCur == [decks |-> decks, players |-> players, coins |-> coins, wilds |-> wilds,
         turn |-> turn, nobels |-> nobels]

InitSearch ==
    /\ \E s \in SearchPositions :
          /\ decks = s.decks
          /\ players = s.players
          /\ coins = s.coins
          /\ wilds = s.wilds
          /\ turn = s.turn
          /\ before = s
          /\ start = s
          /\ played = [i \in 1..Len(s.players) |-> 0]
    /\ nobels \in NobelLists
    /\ build \in {"debug", "release"}
    /\ pc = "idle"
    /\ action = Action_Skip
    /\ ok = TRUE
    /\ steps = 0
    /\ found = NotSearched
    /\ NoStreams

\* max_score(state, depth, -2_000_000_000, 2_000_000_000) as logic calls it
Think(depth) ==
    /\ pc = "idle"
    /\ LET r == max_score(SCur, depth, -2000000000, 2000000000)
       IN  /\ found' = [depth |-> depth, score |-> r.score, action |-> r.action,
                        panicked |-> r.panicked]
           /\ pc' = IF r.panicked THEN "panicked" ELSE "thought"
    /\ UNCHANGED <<decks, players, coins, wilds, turn, action, ok, before, start, steps,
                   played, nobels, build, stdin, stdout, nread, held>>

\* the fixed-policy agent answers for the same State
Pick ==
    /\ pc = "idle"
    /\ found' = [depth |-> 0, score |-> 0, action |-> random_agent_logic(SCur),
                 panicked |-> FALSE]
    /\ pc' = "picked"
    /\ UNCHANGED <<decks, players, coins, wilds, turn, action, ok, before, start, steps,
                   played, nobels, build, stdin, stdout, nread, held>>

\* the host runs the answered action on the position
Play ==
    /\ pc \in {"thought", "picked"}
    /\ steps < MaxSteps
    /\ Returned(run(Cur, found.action), found.action)

NextSearch ==
    \/ \E depth \in 0..MaxDepth : Think(depth)
    \/ Pick
    \/ Play
    \/ Return

SpecSearch == InitSearch /\ [][NextSearch]_vars

(***************************************************************************)
(* An agent process: ai_from_function(logic) of the fixed-policy agent     *)
(* reading the lines its host wrote to its standard input.                 *)
(***************************************************************************)
MaxLines == 2

\* text that is not JSON
Garbage == [kind |-> "text", members |-> {}, text |-> "oops"]

\* a line that could not be read
IoError == [kind |-> "error", members |-> {}, text |-> ""]

Lines ==
    {State_to_string(s) : s \in Positions}
        \cup {JsonObject(State_to_string(Position2).members \cup {<<"nobels", <<>>>>}),
              JsonObject({m \in State_to_string(Position3).members : m[1] # "turn"}),
              Garbage,
              IoError}

Inputs == UNION {[1..n -> Lines] : n \in 0..MaxLines}

InitAgent ==
    /\ stdin \in Inputs
    /\ stdout = <<>>
    /\ nread = 0
    /\ held = <<>>
    /\ pc = "reading"
    /\ decks = Position1.decks
    /\ players = Position1.players
    /\ coins = Position1.coins
    /\ wilds = Position1.wilds
    /\ turn = Position1.turn
    /\ before = Position1
    /\ start = Position1
    /\ played = [i \in 1..Len(Position1.players) |-> 0]
    /\ action = Action_Skip
    /\ ok = TRUE
    /\ steps = 0
    /\ nobels = <<>>
    /\ build = "release"
    /\ found = NotSearched

AgentOnly == UNCHANGED <<decks, players, coins, wilds, turn, action, ok, before, start,
                         steps, played, nobels, build, found, stdin>>

\* for line in stdin().lines(), line.unwrap()
ReadLine ==
    /\ pc = "reading"
    /\ nread < Len(stdin)
    /\ nread' = nread + 1
    /\ held' = stdin[nread + 1]
    /\ pc' = IF stdin[nread + 1].kind = "error" THEN "panicked" ELSE "parsing"
    /\ UNCHANGED stdout
    /\ AgentOnly

\* serde_json::from_str(&line).unwrap()
Parse ==
    /\ pc = "parsing"
    /\ LET r == from_str(held)
       IN  /\ held' = r.state
           /\ pc' = IF r.ok THEN "computing" ELSE "panicked"
    /\ UNCHANGED <<stdout, nread>>
    /\ AgentOnly

\* function(state)
Compute ==
    /\ pc = "computing"
    /\ held' = random_agent_logic(held)
    /\ pc' = "writing"
    /\ UNCHANGED <<stdout, nread>>
    /\ AgentOnly

\* writes the line twice
WriteLine_twice ==
    /\ pc = "writing"
    /\ stdout' = stdout \o <<Action_to_string(held), Action_to_string(held)>>
    /\ held' = <<>>
    /\ pc' = "reading"
    /\ UNCHANGED nread
    /\ AgentOnly

\* println!("{}", serde_json::to_string(&action).unwrap())
WriteLine ==
    /\ pc = "writing"
    /\ stdout' = Append(stdout, Action_to_string(held))
    /\ held' = <<>>
    /\ pc' = "reading"
    /\ UNCHANGED nread
    /\ AgentOnly

\* lines() is exhausted: the loop and the process end
EndOfInput ==
    /\ pc = "reading"
    /\ nread = Len(stdin)
    /\ pc' = "done"
    /\ UNCHANGED <<stdout, nread, held>>
    /\ AgentOnly

NextAgent ==
    \/ ReadLine
    \/ Parse
    \/ Compute
    \/ WriteLine
    \/ EndOfInput

SpecAgent == InitAgent /\ [][NextAgent]_vars

(***************************************************************************)
(* Properties                                                              *)
(***************************************************************************)
Acting == before.players[before.turn + 1]

ActingNow == players[before.turn + 1]

RanOk(kind) == pc = "returned" /\ action.kind = kind /\ ok

RanErr(kind) == pc = "returned" /\ action.kind = kind /\ ~ok

\* C1: a call of State::run that returns an error leaves the State equal,
\* field for field, to the State before the call.
AllOrNothing == (pc = "returned" /\ ~ok) => Cur = before

\* all coins of all kinds, in the bank and in the players' spendable holdings
RECURSIVE mortal_total(_, _)
mortal_total(ps, i) ==
    IF i > Len(ps) THEN 0 ELSE ResourceMap_sum(ps[i].mortal) + mortal_total(ps, i + 1)

CoinTotal(s) == ResourceMap_sum(s.coins) + mortal_total(s.players, 1)

\* C2: the coins in the bank plus the coins in all players' spendable
\* holdings are as many as at the start, after any sequence of calls; no arm
\* of run turns a coin into a wild, so nothing is added for conversions.
CoinConservation == CoinTotal(Cur) = CoinTotal(start)

CoinsMoved ==
    /\ pc = "returned" /\ ok
    /\ \E r \in ResourceKind : coins[r] # start.coins[r]
    /\ \E r \in ResourceKind : coins[r] > before.coins[r]

\* the lowest index among the players with the highest score
FirstMax(s) ==
    CHOOSE i \in 0..(Len(s.players) - 1) :
        /\ \A j \in 0..(Len(s.players) - 1) :
              s.players[j + 1].score <= s.players[i + 1].score
        /\ \A j \in 0..(i - 1) : s.players[j + 1].score < s.players[i + 1].score

\* C3: in a finished game winner is the first (lowest) index among the
\* players with the highest score, so scores [15, 15] give winner 0.
WinnerFirstOfTies == is_finished(Cur) => winner(Cur) = FirstMax(Cur)

\* C4: turn is a valid player index in every state, and after a successful
\* call of any kind it is the turn before plus one, modulo the player count.
TurnRotation ==
    /\ turn \in 0..(Len(players) - 1)
    /\ (pc = "returned" /\ ok) => turn = (before.turn + 1) % Len(before.players)
    /\ (pc = "returned" /\ ~ok) => turn = before.turn

TurnWrapped ==
    /\ pc = "returned" /\ ok
    /\ Len(players) = 3 /\ before.turn = 2 /\ turn = 0
    /\ action.kind = "Reserve"

\* the card a purchase call addresses, in the State before the call
Addressable ==
    IF action.kind = "Purchase"
    THEN /\ action.deck < Len(before.decks)
         /\ action.card < MAX_DECK_SHOW
         /\ action.card < Len(before.decks[action.deck + 1])
    ELSE action.index < Len(Acting.reserved)

Bought ==
    IF action.kind = "Purchase"
    THEN before.decks[action.deck + 1][action.card + 1]
    ELSE Acting.reserved[action.index + 1]

\* C5: can_purchase(cost) is true exactly when the settlement purchase(cost)
\* succeeds, for every player and cost, and a Purchase of an addressable card
\* succeeds exactly when can_purchase is true.
AffordabilityEquivalence ==
    (pc = "returned" /\ action.kind = "Purchase" /\ Addressable) =>
        /\ can_purchase(Acting, Bought.cost)
              <=> purchase(Acting, Bought.cost, before.coins, before.wilds).ok
        /\ ok <=> can_purchase(Acting, Bought.cost)

\* a purchase that needed wild coins for two kinds went through
BoughtWithWilds ==
    /\ RanOk("Purchase")
    /\ Cardinality({r \in ResourceKind :
            Bought.cost[r] > Acting.immortal[r] + Acting.mortal[r]}) >= 2

\* what is left of a cost after the permanent holdings, floored at zero
Need(p, cost) == [r \in ResourceKind |-> saturating_sub(cost[r], p.immortal[r])]

PerKindAffordable(p, cost) ==
    \A r \in ResourceKind : Need(p, cost)[r] <= p.mortal[r] + p.wilds

\* the wild coins a cost takes: per kind, the need beyond the spendable coins
WildsNeeded(p, cost) ==
    ResourceMap_sum([r \in ResourceKind |->
        saturating_sub(Need(p, cost)[r], p.mortal[r])])

\* C6 as stated: a player can afford a cost, and a Purchase of an addressable
\* card succeeds, exactly when each kind taken separately has
\* max(0, cost - permanent) <= spendable + wild.
AffordabilityPerKind ==
    (pc = "returned" /\ action.kind = "Purchase" /\ Addressable) =>
        /\ ok <=> PerKindAffordable(Acting, Bought.cost)
        /\ can_purchase(Acting, Bought.cost) <=> PerKindAffordable(Acting, Bought.cost)

\* C6, amended: a player can afford a cost, and a Purchase of an addressable
\* card succeeds, exactly when the needs beyond the spendable coins, summed
\* over the kinds, are at most the player's wild coins.
AffordabilityTotal ==
    (pc = "returned" /\ action.kind = "Purchase" /\ Addressable) =>
        /\ ok <=> WildsNeeded(Acting, Bought.cost) <= Acting.wilds
        /\ can_purchase(Acting, Bought.cost)
              <=> WildsNeeded(Acting, Bought.cost) <= Acting.wilds

\* a purchase that only the permanent holdings made affordable
BoughtWithDiscount ==
    /\ RanOk("Purchase")
    /\ \E r \in ResourceKind :
          /\ Acting.immortal[r] > 0
          /\ Bought.cost[r] > Acting.mortal[r] + Acting.wilds

Picked == {action.one, action.two, action.three}

\* C7: PickThree succeeds exactly when the three kinds are pairwise distinct
\* and the bank has a coin of each; then one coin of each kind has moved from
\* the bank to the acting player and only the turn changed besides.
PickThreeRule ==
    (pc = "returned" /\ action.kind = "PickThree") =>
        /\ ok <=> /\ Cardinality(Picked) = 3
                  /\ \A r \in Picked : before.coins[r] >= 1
        /\ ok =>
              /\ coins = [r \in ResourceKind |->
                            IF r \in Picked THEN before.coins[r] - 1
                                            ELSE before.coins[r]]
              /\ ActingNow.mortal = [r \in ResourceKind |->
                            IF r \in Picked THEN Acting.mortal[r] + 1
                                            ELSE Acting.mortal[r]]
              /\ ActingNow = [Acting EXCEPT !.mortal = ActingNow.mortal]
              /\ \A i \in 1..Len(players) :
                    i # before.turn + 1 => players[i] = before.players[i]
              /\ Len(players) = Len(before.players)
              /\ decks = before.decks
              /\ wilds = before.wilds

PickedThree == RanOk("PickThree") /\ coins # before.coins

\* C8: PickTwo succeeds exactly when the bank has at least 4 coins of the
\* kind; then the bank has 2 fewer (at least 2 remain) and the acting player
\* 2 more of that kind; otherwise bank and players are unchanged.
PickTwoRule ==
    (pc = "returned" /\ action.kind = "PickTwo") =>
        /\ ok <=> before.coins[action.color] >= 4
        /\ ok =>
              /\ coins = [before.coins EXCEPT ![action.color] = @ - 2]
              /\ coins[action.color] >= 2
              /\ ActingNow = [Acting EXCEPT !.mortal[action.color] = @ + 2]
        /\ ~ok => coins = before.coins /\ players = before.players

PickedTwoOfFour ==
    /\ RanOk("PickTwo")
    /\ before.coins[action.color] = 4
    /\ coins[action.color] = 2

Min(a, b) == IF a < b THEN a ELSE b

IsPurchase == action.kind \in {"Purchase", "PurchaseReserved"}

\* C9: a successful Purchase or PurchaseReserved spends, per kind,
\* min(spendable, need) spendable coins, which the bank gains, and wild coins
\* for the rest of the need, which the wild bank gains; permanent holdings
\* are not spent.
SettlementRule ==
    (pc = "returned" /\ IsPurchase /\ ok) =>
        LET need == Need(Acting, Bought.cost)
            spent == [r \in ResourceKind |-> Min(Acting.mortal[r], need[r])]
            wild == ResourceMap_sum([r \in ResourceKind |-> need[r] - spent[r]])
        IN  /\ \A r \in ResourceKind :
                  /\ ActingNow.mortal[r] = Acting.mortal[r] - spent[r]
                  /\ coins[r] = before.coins[r] + spent[r]
                  /\ ActingNow.immortal[r] >= Acting.immortal[r]
            /\ ActingNow.wilds = Acting.wilds - wild
            /\ wilds = before.wilds + wild

\* a settlement that took spendable coins and wild coins for the same kind
SettledWithBoth ==
    /\ pc = "returned" /\ IsPurchase /\ ok
    /\ wilds > before.wilds
    /\ \E r \in ResourceKind :
          /\ Acting.mortal[r] > 0
          /\ Need(Acting, Bought.cost)[r] > Acting.mortal[r]

\* v without its element at the 0-based index i, element by element
Without(v, w, i) ==
    /\ Len(w) = Len(v) - 1
    /\ \A j \in 1..Len(w) : w[j] = IF j <= i THEN v[j] ELSE v[j + 1]

\* C10: a successful Purchase removes exactly the addressed card from its
\* deck, a successful PurchaseReserved exactly the addressed entry from the
\* acting player's reserved list, leaving the decks alone; the card's unit of
\* production and its score go to the acting player and no other player
\* changes. A Purchase of an invalid deck, a slot >= 4 or a slot past the
\* deck's end fails, and so does a PurchaseReserved past the reserved list.
CardTransfer ==
    /\ (pc = "returned" /\ IsPurchase /\ ~Addressable) => ~ok
    /\ (pc = "returned" /\ IsPurchase /\ ok) =>
          /\ Len(decks) = Len(before.decks)
          /\ Len(players) = Len(before.players)
          /\ \A i \in 1..Len(players) :
                i # before.turn + 1 => players[i] = before.players[i]
          /\ ActingNow.immortal = [r \in ResourceKind |->
                Acting.immortal[r] + (IF Bought.adds[r] = 1 THEN 1 ELSE 0)]
          /\ ResourceMap_sum(Bought.adds) = 1
          /\ ActingNow.score = Acting.score + Bought.score
          /\ IF action.kind = "Purchase"
             THEN /\ Without(before.decks[action.deck + 1],
                             decks[action.deck + 1], action.card)
                  /\ \A d \in 1..Len(decks) :
                        d # action.deck + 1 => decks[d] = before.decks[d]
                  /\ ActingNow.reserved = Acting.reserved
             ELSE /\ decks = before.decks
                  /\ Without(Acting.reserved, ActingNow.reserved, action.index)

\* a card bought out of the middle of a deck of distinct cards
BoughtFromDeckMiddle ==
    /\ RanOk("Purchase")
    /\ action.card >= 1
    /\ action.card + 1 < Len(before.decks[action.deck + 1])
    /\ before.decks[action.deck + 1][action.card] # Bought
    /\ before.decks[action.deck + 1][action.card + 2] # Bought

\* C11: Reserve succeeds exactly when the deck index is valid, the slot is
\* below 4 and addresses a card of that deck; then the card has moved from
\* the deck to the end of the acting player's reserved list and nothing was
\* paid or scored: the bank, the wild bank and every player's spendable,
\* permanent, wild and score values are as before.
ReserveRule ==
    (pc = "returned" /\ action.kind = "Reserve") =>
        /\ ok <=> /\ action.deck < Len(before.decks)
                  /\ action.card < 4
                  /\ action.card < Len(before.decks[action.deck + 1])
        /\ ok =>
              /\ Without(before.decks[action.deck + 1],
                         decks[action.deck + 1], action.card)
              /\ \A d \in 1..Len(decks) :
                    d # action.deck + 1 => decks[d] = before.decks[d]
              /\ Len(decks) = Len(before.decks)
              /\ Len(ActingNow.reserved) = Len(Acting.reserved) + 1
              /\ \A j \in 1..Len(Acting.reserved) :
                    ActingNow.reserved[j] = Acting.reserved[j]
              /\ ActingNow.reserved[Len(ActingNow.reserved)]
                    = before.decks[action.deck + 1][action.card + 1]
              /\ coins = before.coins
              /\ wilds = before.wilds
              /\ Len(players) = Len(before.players)
              /\ \A i \in 1..Len(players) :
                    /\ players[i].mortal = before.players[i].mortal
                    /\ players[i].immortal = before.players[i].immortal
                    /\ players[i].wilds = before.players[i].wilds
                    /\ players[i].score = before.players[i].score
                    /\ i # before.turn + 1 => players[i] = before.players[i]

\* a scoring card reserved behind cards reserved earlier
ReservedBehind ==
    /\ RanOk("Reserve")
    /\ Len(Acting.reserved) >= 1
    /\ before.decks[action.deck + 1][action.card + 1].score > 0

SomeoneAbove14 == \E i \in 1..Len(players) : players[i].score > 14

\* C12: is_finished holds exactly when turn is 0 and some score exceeds 14;
\* so in a play started with turn 0 every player has made the same number of
\* successful calls whenever the game is finished, and a state with a score
\* above 14 and another seat to move is not finished.
EndOfRound ==
    /\ is_finished(Cur) <=> (turn = 0 /\ SomeoneAbove14)
    /\ (start.turn = 0 /\ is_finished(Cur)) =>
          \A i \in 1..Len(players) : played[i] = played[1]
    /\ (SomeoneAbove14 /\ turn # 0) => ~is_finished(Cur)

\* the game finished at the end of a round that a player began above 14
FinishedAfterRound ==
    /\ start.turn = 0
    /\ is_finished(Cur)
    /\ pc = "returned" /\ ok
    /\ \E i \in 1..Len(players) : before.players[i].score > 14
    /\ played[1] >= 1

\* the place of an action kind in the order moves generates in
Rank(kind) ==
    CASE kind = "Purchase" -> 1
      [] kind = "PurchaseReserved" -> 2
      [] kind = "PickThree" -> 3
      [] kind = "PickTwo" -> 4
      [] kind = "Reserve" -> 5

\* C14: every pair (s', a) of moves(s) has run(a) succeed on s with s' the
\* result of a on an unmodified copy of s, whatever the attempts before it
\* did, and the pairs come as Purchase, PurchaseReserved, PickThree, PickTwo,
\* Reserve.
MovesSound ==
    pc = "idle" =>
        LET ms == moves(Cur)
        IN  /\ \A i \in 1..Len(ms) :
                  /\ run(Cur, ms[i][2]).ok
                  /\ ms[i][1] = run(Cur, ms[i][2]).state
            /\ \A i \in 1..Len(ms) : \A j \in i..Len(ms) :
                  Rank(ms[i][2].kind) <= Rank(ms[j][2].kind)

\* moves of all five kinds, generated past a PickThree attempt that failed
\* after taking a coin
MovesOfAllKinds ==
    /\ pc = "idle"
    /\ {moves(Cur)[i][2].kind : i \in 1..Len(moves(Cur))}
          = {"Purchase", "PurchaseReserved", "PickThree", "PickTwo", "Reserve"}
    /\ \E i \in 1..Len(CANDIDATES) :
          LET r == run(Cur, Action_PickThree(CANDIDATES[i][1], CANDIDATES[i][2],
                                             CANDIDATES[i][3]))
          IN  ~r.ok /\ r.state # Cur

\* C15 as stated: every action other than Skip that run accepts in a state
\* is the action of a pair of moves of that state.
MovesComplete ==
    (pc = "returned" /\ ok /\ action.kind # "Skip") =>
        \E i \in 1..Len(moves(before)) : moves(before)[i][2] = action

SameMove(a, b) ==
    /\ a.kind = b.kind
    /\ IF a.kind = "PickThree"
       THEN {a.one, a.two, a.three} = {b.one, b.two, b.three}
       ELSE a = b

\* C15, amended: every action other than Skip that run accepts in a state
\* has a pair in moves of that state with the same resulting State, whose
\* action is that action or, for a PickThree, picks the same three kinds in
\* the order of the fixed candidate list.
MovesCompleteUpToOrder ==
    (pc = "returned" /\ ok /\ action.kind # "Skip") =>
        \E i \in 1..Len(moves(before)) :
            /\ SameMove(moves(before)[i][2], action)
            /\ moves(before)[i][1] = Cur

\* a PickThree accepted with its kinds in an order the candidate list lacks
PickedInOtherOrder ==
    /\ RanOk("PickThree")
    /\ \A i \in 1..Len(CANDIDATES) :
          CANDIDATES[i] # <<action.one, action.two, action.three>>

\* C18: after any call of State::run, successful or failed, every bank
\* count, every player's spendable and permanent count, every wild count and
\* every score is at least 0
NonNegative ==
    /\ wilds >= 0
    /\ \A r \in ResourceKind : coins[r] >= 0
    /\ \A i \in 1..Len(players) :
          /\ players[i].wilds >= 0
          /\ players[i].score >= 0
          /\ \A r \in ResourceKind : players[i].mortal[r] >= 0 /\ players[i].immortal[r] >= 0

\* a purchase that spent the buyer's last coin of a kind and last wild
SpentToZero ==
    /\ pc = "returned"
    /\ ok
    /\ IsPurchase
    /\ Acting.wilds > 0
    /\ ActingNow.wilds = 0
    /\ \E r \in ResourceKind : Acting.mortal[r] > 0 /\ ActingNow.mortal[r] = 0

\* C19: across a call of State::run no deck grows, no player's permanent
\* holding of a kind decreases and no player's score decreases
Monotonic ==
    pc = "returned"
        => /\ \A d \in 1..Len(decks) : Len(decks[d]) <= Len(before.decks[d])
           /\ \A i \in 1..Len(players) :
                 /\ players[i].score >= before.players[i].score
                 /\ \A r \in ResourceKind :
                       players[i].immortal[r] >= before.players[i].immortal[r]

\* a purchase from a deck by a player who already held permanent resources
\* of another kind: the deck shrank, the holdings and the score grew
GrewByPurchase ==
    /\ RanOk("Purchase")
    /\ Len(decks[action.deck + 1]) < Len(before.decks[action.deck + 1])
    /\ ActingNow.score > Acting.score
    /\ \E r, q \in ResourceKind :
          /\ r # q
          /\ Acting.immortal[q] > 0
          /\ ActingNow.immortal[r] > Acting.immortal[r]

\* the wild coins of the bank and of all players
RECURSIVE wilds_total(_, _)
wilds_total(ps, i) == IF i > Len(ps) THEN 0 ELSE ps[i].wilds + wilds_total(ps, i + 1)

WildTotal(s) == s.wilds + wilds_total(s.players, 1)

\* C23: across every call of State::run the wild coins of the bank and of
\* all players together are unchanged and no player's wild count grows, so a
\* player who starts with 0 wild coins has 0 in every state
WildsFlowToBank ==
    /\ WildTotal(Cur) = WildTotal(start)
    /\ pc = "returned"
          => /\ WildTotal(Cur) = WildTotal(before)
             /\ \A i \in 1..Len(players) : players[i].wilds <= before.players[i].wilds
    /\ \A i \in 1..Len(players) : start.players[i].wilds = 0 => players[i].wilds = 0

\* a purchase paid in part with wild coins, next to a player without any
WildsPaid ==
    /\ pc = "returned"
    /\ ok
    /\ IsPurchase
    /\ ActingNow.wilds < Acting.wilds
    /\ wilds = before.wilds + (Acting.wilds - ActingNow.wilds)
    /\ \E i \in 1..Len(players) : start.players[i].wilds = 0

(***************************************************************************)
(* The search                                                              *)
(***************************************************************************)
RECURSIVE negamax(_, _)
RECURSIVE negamax_loop(_, _, _, _)

\* plain negamax over the same tree: every move of every node is evaluated
\* and the first move with the greatest value is kept
negamax_loop(ms, i, r, depth) ==
    IF i > Len(ms)
    THEN r
    ELSE LET c == negamax(ms[i][1], depth - 1)
         IN  IF c.panicked
             THEN [r EXCEPT !.panicked = TRUE]
             ELSE IF r.score < -c.score
                  THEN negamax_loop(ms, i + 1, Scored(-c.score, ms[i][2]), depth)
                  ELSE negamax_loop(ms, i + 1, r, depth)

negamax(state, depth) ==
    IF is_finished(state)
    THEN Scored(IF winner(state) = 0 THEN 1000000000 ELSE -1000000000, Action_Skip)
    ELSE IF state.turn = 0 /\ depth <= 0
    THEN LET h == heuristic(state)
         IN  [score |-> h.value, action |-> Action_Skip, panicked |-> h.panicked]
    ELSE negamax_loop(moves(state), 1, Scored(-1000000001, Action_Skip), depth)

MoveValue(state, depth, i) == -negamax(moves(state)[i][1], depth - 1).score

SearchNeverFails ==
    /\ pc # "panicked"
    /\ (pc = "thought" /\ ~is_finished(SCur) /\ moves(SCur) = <<>>)
           => found.action = Action_Skip

Abs(x) == IF x < 0 THEN -x ELSE x

\* C20: a finished state is valued +1_000_000_000 when seat 0 won and
\* -1_000_000_000 otherwise at every depth, the horizon included, and where
\* the horizon cutoff can fire (seat 0 to move, every score at most 14) the
\* heuristic stays strictly below that magnitude
TerminalDominance ==
    /\ (pc = "thought" /\ is_finished(SCur))
           => /\ found.score = IF winner(SCur) = 0 THEN 1000000000 ELSE -1000000000
              /\ found.action = Action_Skip
    /\ (turn = 0 /\ (\A i \in 1..Len(players) : players[i].score <= 14)
           /\ ~heuristic(SCur).panicked)
           => Abs(heuristic(SCur).value) < 1000000000

\* a finished state searched with depth 0, where the horizon test holds too
\* and the heuristic would have answered another value
TerminalAtHorizon ==
    /\ pc = "thought"
    /\ is_finished(SCur)
    /\ found.depth = 0
    /\ ~heuristic(SCur).panicked
    /\ heuristic(SCur).value # found.score
    /\ start.turn = 0
    /\ heuristic(start @@ [nobels |-> nobels]).value # 0

(***************************************************************************)
(* The agent process                                                       *)
(***************************************************************************)
\* the answer to the k-th line of the input
Answer(k) == Action_to_string(random_agent_logic(from_str(stdin[k]).state))

\* C17: the agent writes one action line per state line, in input order: the
\* k-th line written answers the k-th state read and no other, it is written
\* before the next line is read, and at the end of the input as many actions
\* are written as states were read
LineProtocol ==
    /\ Len(stdout) <= nread
    /\ nread <= Len(stdout) + 1
    /\ pc = "reading" => nread = Len(stdout)
    /\ \A k \in 1..Len(stdout) : from_str(stdin[k]).ok /\ stdout[k] = Answer(k)
    /\ pc = "done" => Len(stdout) = Len(stdin) /\ nread = Len(stdin)

\* the whole input answered: two different states, two different actions
AnsweredInOrder ==
    /\ pc = "done"
    /\ Len(stdout) = 2
    /\ from_str(stdin[1]).state # from_str(stdin[2]).state
    /\ stdout[1] # stdout[2]
    /\ stdout[1].kind = "object"

(***************************************************************************)
(* The agents' answers                                                     *)
(***************************************************************************)
\* the actions of the pairs of moves(state)
MoveActions(state) == {moves(state)[i][2] : i \in 1..Len(moves(state))}

NothingElseLegal(state) ==
    /\ \A index \in 0..Len(state.players[state.turn + 1].reserved) :
          ~run(state, Action_PurchaseReserved(index)).ok
    /\ \A one, two, three \in ResourceKind :
          ~run(state, Action_PickThree(one, two, three)).ok
    /\ \A color \in ResourceKind : ~run(state, Action_PickTwo(color)).ok

\* every deck is empty
DecksEmpty(state) == \A d \in 1..Len(state.decks) : state.decks[d] = <<>>

\* C22: where a deck is not empty a Reserve of a visible card is legal, so
\* moves(s) is empty only when every deck is empty and no purchase of a
\* reserved card, PickThree or PickTwo is legal, and only then does an agent
\* asked for a move in an unfinished State fall back to Skip
SkipOnlyWithoutMoves ==
    /\ ~DecksEmpty(SCur) => \E a \in MoveActions(SCur) : a.kind = "Reserve"
    /\ moves(SCur) = <<>> => DecksEmpty(SCur) /\ NothingElseLegal(SCur)
    /\ (/\ pc = "picked" \/ (pc = "thought" /\ found.depth = 4)
        /\ ~is_finished(SCur)
        /\ found.action = Action_Skip)
          => DecksEmpty(SCur) /\ NothingElseLegal(SCur)

====
